---- MODULE Spec2Model ----
(***************************************************************************)
(* A model of the modal terminal editor of src/src/main.rs.                *)
(*                                                                         *)
(* A Rust String is modelled as the sequence of its UTF-8 bytes, each byte *)
(* a token: "x", "w", ... are one-byte characters, <<"C3","A9">> is the    *)
(* two-byte character U+00E9, "LF" and "CR" are the line feed and the      *)
(* carriage return.  Column arithmetic in the source is byte arithmetic    *)
(* (String::len, String::insert, String::remove, String::truncate and      *)
(* range slicing), and those library calls panic when an index is not on   *)
(* a character boundary; the model keeps both.                             *)
(*                                                                         *)
(* The terminal is assumed wide enough that the renderer never truncates   *)
(* a line, and its height is fixed for the length of a session.            *)
(***************************************************************************)
EXTENDS Integers, Sequences, FiniteSets, TLC

VARIABLES
    lines,            \* Editor.lines: Vec<String>
    cursor,           \* Editor.cursor: (row, column), as <<row, column>>
    mode,             \* Editor.mode
    status_message,   \* Editor.status_message
    scroll_offset,    \* Editor.scroll_offset
    file,             \* what the file system holds at Editor.file_path
    height,           \* the height termion::terminal_size() reports
    pc,               \* where Editor::run (or the save/load round trip) stands
    drawn             \* calls of Editor::display since run last handled a key event

vars == <<lines, cursor, mode, status_message, scroll_offset, file, height, pc, drawn>>

----------------------------------------------------------------------------
(* Bounds of the model *)

MaxLines == 3      \* keys are offered while the buffer they leave has at most this many lines
MaxChars == 1      \* ... and at most this many characters
MaxCmdLen == 2     \* Command-mode characters are offered while the text they leave is no longer
MaxRTLines == 3    \* round-trip buffers: at most this many lines
MaxRTChars == 2    \* round-trip buffers: at most this many characters per line

\* The smallest terminal height the viewport arithmetic (height - 3) allows.
MinHeight == 3
\* The terminal heights of the model's sessions.
Heights == {MinHeight, MinHeight + 1}

----------------------------------------------------------------------------
(* Strings as UTF-8 byte sequences *)

LF == "LF"
CR == "CR"

\* The characters the model types or loads, each as its UTF-8 encoding.
ChX == <<"x">>
ChW == <<"w">>
ChQ == <<"q">>
ChI == <<"i">>
ChColon == <<":">>
ChE9 == <<"C3", "A9">>     \* U+00E9, two bytes
ChLF == <<LF>>

\* Bytes of the form 10xxxxxx: never the first byte of a character.
ContinuationBytes == {"A9"}

\* The length of the character whose first byte is b.
utf8_char_width(b) == IF b = "C3" THEN 2 ELSE 1

\* str::is_char_boundary
is_char_boundary(s, i) ==
    \/ i = 0
    \/ i = Len(s)
    \/ (0 < i /\ i < Len(s) /\ s[i + 1] \notin ContinuationBytes)

Min(a, b) == IF a < b THEN a ELSE b

\* &s[i..]
str_from(s, i) == SubSeq(s, i + 1, Len(s))
\* &s[..i]
str_to(s, i) == SubSeq(s, 1, i)

\* String::pop: drops the last character, all its bytes; nothing on "".
string_pop(s) ==
    IF s = <<>> THEN s
    ELSE IF s[Len(s)] \in ContinuationBytes THEN SubSeq(s, 1, Len(s) - 2)
    ELSE SubSeq(s, 1, Len(s) - 1)

FileSaved == <<"F", "i", "l", "e", " ", "s", "a", "v", "e", "d">>
InvalidCommand == <<"I", "n", "v", "a", "l", "i", "d", " ", "c", "o", "m", "m", "a", "n", "d">>

----------------------------------------------------------------------------
(* The file at file_path *)

\* What file_path names: nothing, a regular file with its bytes, or something
\* that exists and cannot be opened or read (a directory, a file without read
\* permission).
NoFile == [exists |-> FALSE, readable |-> FALSE, data |-> <<>>]
FileOf(bytes) == [exists |-> TRUE, readable |-> TRUE, data |-> bytes]
Unreadable == [exists |-> TRUE, readable |-> FALSE, data |-> <<>>]

\* std::str::from_utf8 accepts s: every byte starts a character or continues
\* one that needs it.
RECURSIVE is_utf8(_)
is_utf8(s) ==
    IF s = <<>> THEN TRUE
    ELSE IF s[1] \in ContinuationBytes THEN FALSE
    ELSE LET w == utf8_char_width(s[1])
         IN /\ w <= Len(s)
            /\ \A i \in 2..w : s[i] \in ContinuationBytes
            /\ is_utf8(SubSeq(s, w + 1, Len(s)))

\* Index of the first LF of f, 0 when there is none.
first_lf(f) ==
    IF \E i \in 1..Len(f) : f[i] = LF
    THEN CHOOSE i \in 1..Len(f) : f[i] = LF /\ \A j \in 1..(i - 1) : f[j] # LF
    ELSE 0

\* BufRead::lines: records end at LF (the last may end at end of file); the LF
\* is dropped, and a CR right before a dropped LF is dropped with it.
RECURSIVE buf_lines(_)
buf_lines(f) ==
    IF f = <<>> THEN <<>>
    ELSE LET n == first_lf(f)
             rec == IF n = 0 THEN f ELSE SubSeq(f, 1, n - 1)
             rest == IF n = 0 THEN <<>> ELSE SubSeq(f, n + 1, Len(f))
             line == IF n > 0 /\ rec # <<>> /\ rec[Len(rec)] = CR
                     THEN SubSeq(rec, 1, Len(rec) - 1)
                     ELSE rec
         IN <<line>> \o buf_lines(rest)

\* write_lines with the lines joined by LF instead of each ended by one
RECURSIVE write_lines_joined(_, _)
write_lines_joined(ls, n) ==
    IF n = 0 THEN <<>>
    ELSE IF n = 1 THEN ls[1]
    ELSE write_lines_joined(ls, n - 1) \o <<LF>> \o ls[n]

\* writeln!(file, "{}", line) for the first n lines of ls.
RECURSIVE write_lines(_, _)
write_lines(ls, n) ==
    IF n = 0 THEN <<>>
    ELSE write_lines(ls, n - 1) \o ls[n] \o <<LF>>

----------------------------------------------------------------------------
(* The editor as a record, and the operations of impl Editor on it *)

Ed(ls, cur, m, st, so) ==
    [lines |-> ls, cursor |-> cur, mode |-> m, status_message |-> st, scroll_offset |-> so]

\* Editor::new
\* The editor variables when Editor::new has failed and no Editor exists.
NoEditor == Ed(<<<<>>>>, <<0, 0>>, "Normal", <<>>, 0)

\* Editor::new: io::Result<Self>.  File::open or a read fails (line 32, 33),
\* and BufRead::lines fails with InvalidData on a line that is not UTF-8; LF
\* is a one-byte character, so that is when the file's bytes are not UTF-8.
new(f) ==
    IF f.exists /\ (~f.readable \/ ~is_utf8(f.data))
    THEN [ed |-> NoEditor, out |-> "err"]
    ELSE [ed |-> Ed(IF f.exists THEN buf_lines(f.data) ELSE <<<<>>>>,
                    <<0, 0>>, "Normal", <<>>, 0),
          out |-> "ok"]

\* What an operation that returns () did: ran to its end, or panicked.
Done(e) == [ed |-> e, out |-> "ok"]
Panic(e) == [ed |-> e, out |-> "panic"]

Row(e) == e.cursor[1]
Col(e) == e.cursor[2]
\* self.lines[i], an index out of range being a panic the callers test first
HasLine(e, i) == 0 <= i /\ i < Len(e.lines)
Line(e, i) == e.lines[i + 1]

\* move_cursor_up without the clamp of the column to the new line's length
move_cursor_up_unclamped(e) ==
    IF Row(e) > 0
    THEN Done([e EXCEPT !.cursor = <<Row(e) - 1, Col(e)>>,
                        !.scroll_offset = IF Row(e) - 1 < @ THEN Row(e) - 1 ELSE @])
    ELSE Done(e)

move_cursor_up(e) ==
    IF Row(e) > 0
    THEN IF ~HasLine(e, Row(e) - 1) THEN Panic(e)
         ELSE LET r == Row(e) - 1
                  c == Min(Col(e), Len(Line(e, r)))
              IN Done([e EXCEPT !.cursor = <<r, c>>,
                                !.scroll_offset = IF r < @ THEN r ELSE @])
    ELSE Done(e)

\* move_cursor_down with the visible row count height - 2 in the place of
\* height - 3 at lines 186 and 187
move_cursor_down_visible_rows(e, h) ==
    IF Len(e.lines) = 0 THEN Panic(e)
    ELSE IF Row(e) < Len(e.lines) - 1
    THEN LET r == Row(e) + 1
             c == Min(Col(e), Len(Line(e, r)))
             so == e.scroll_offset
         IN Done([e EXCEPT !.cursor = <<r, c>>,
                           !.scroll_offset =
                               IF r >= so + h - 2
                               THEN (IF r - (h - 2) < 0 THEN 0 ELSE r - (h - 2))
                               ELSE so])
    ELSE Done(e)

\* move_cursor_down with the scroll adjustment of lines 186-188 placed after
\* the `if` of line 182 instead of inside it
move_cursor_down_always_scrolls(e, h) ==
    IF Len(e.lines) = 0 THEN Panic(e)
    ELSE LET r == IF Row(e) < Len(e.lines) - 1 THEN Row(e) + 1 ELSE Row(e)
             c == Min(Col(e), Len(Line(e, r)))
             so == e.scroll_offset
         IN Done([e EXCEPT !.cursor = <<r, c>>,
                           !.scroll_offset =
                               IF r >= so + h - 3
                               THEN (IF r - (h - 3) < 0 THEN 0 ELSE r - (h - 3))
                               ELSE so])

move_cursor_down(e, h) ==
    \* an empty buffer makes lines.len() - 1 underflow: a panic with overflow
    \* checks, and without them the index lines[1] panics two lines later
    IF Len(e.lines) = 0 THEN Panic(e)
    ELSE IF Row(e) < Len(e.lines) - 1
    THEN LET r == Row(e) + 1
             c == Min(Col(e), Len(Line(e, r)))
             so == e.scroll_offset
         IN Done([e EXCEPT !.cursor = <<r, c>>,
                           !.scroll_offset =
                               IF r >= so + h - 3
                               THEN (IF r - (h - 3) < 0 THEN 0 ELSE r - (h - 3))
                               ELSE so])
    ELSE Done(e)

move_cursor_left(e) ==
    IF Col(e) > 0 THEN Done([e EXCEPT !.cursor = <<Row(e), Col(e) - 1>>])
    ELSE IF Row(e) > 0
    THEN IF ~HasLine(e, Row(e) - 1) THEN Panic(e)
         ELSE Done([e EXCEPT !.cursor = <<Row(e) - 1, Len(Line(e, Row(e) - 1))>>])
    ELSE Done(e)

\* move_cursor_right without the step to the next line (lines 204-207 left out)
move_cursor_right_no_wrap(e) ==
    IF ~HasLine(e, Row(e)) THEN Panic(e)
    ELSE IF Col(e) < Len(Line(e, Row(e)))
    THEN Done([e EXCEPT !.cursor = <<Row(e), Col(e) + 1>>])
    ELSE Done(e)

move_cursor_right(e) ==
    IF ~HasLine(e, Row(e)) THEN Panic(e)
    ELSE IF Col(e) < Len(Line(e, Row(e)))
    THEN Done([e EXCEPT !.cursor = <<Row(e), Col(e) + 1>>])
    ELSE IF Row(e) < Len(e.lines) - 1
    THEN Done([e EXCEPT !.cursor = <<Row(e) + 1, 0>>])
    ELSE Done(e)

\* String::insert(idx, c) panics off a character boundary
insert_char(e, c) ==
    IF ~HasLine(e, Row(e)) THEN Panic(e)
    ELSE LET line == Line(e, Row(e))
             idx == Col(e)
         IN IF idx > Len(line) \/ ~is_char_boundary(line, idx) THEN Panic(e)
            ELSE Done([e EXCEPT
                    !.lines[Row(e) + 1] = str_to(line, idx) \o c \o str_from(line, idx),
                    !.cursor = <<Row(e), idx + 1>>])

\* the slice [col..] and String::truncate both panic off a character boundary
insert_newline(e) ==
    IF ~HasLine(e, Row(e)) THEN Panic(e)
    ELSE LET line == Line(e, Row(e))
             idx == Col(e)
             r == Row(e)
         IN IF idx > Len(line) \/ ~is_char_boundary(line, idx) THEN Panic(e)
            ELSE Done([e EXCEPT
                    !.lines = SubSeq(e.lines, 1, r) \o <<str_to(line, idx)>>
                              \o <<str_from(line, idx)>>
                              \o SubSeq(e.lines, r + 2, Len(e.lines)),
                    !.cursor = <<r + 1, 0>>])

\* String::remove(idx) removes the whole character that starts at byte idx and
\* panics when idx is not the start of one
delete_char(e) ==
    IF Col(e) > 0
    THEN IF ~HasLine(e, Row(e)) THEN Panic(e)
         ELSE LET line == Line(e, Row(e))
                  idx == Col(e) - 1
              IN IF idx >= Len(line) \/ ~is_char_boundary(line, idx) THEN Panic(e)
                 ELSE LET w == utf8_char_width(line[idx + 1])
                      IN Done([e EXCEPT
                              !.lines[Row(e) + 1] = str_to(line, idx) \o str_from(line, idx + w),
                              !.cursor = <<Row(e), idx>>])
    ELSE IF Row(e) > 0
    THEN IF ~HasLine(e, Row(e)) THEN Panic(e)
         ELSE LET r == Row(e)
                  current_line == Line(e, r)
                  prev == Line(e, r - 1)
              IN Done([e EXCEPT
                      !.lines = SubSeq(e.lines, 1, r - 1) \o <<prev \o current_line>>
                                \o SubSeq(e.lines, r + 2, Len(e.lines)),
                      !.cursor = <<r - 1, Len(prev)>>])
    ELSE Done(e)

----------------------------------------------------------------------------
(* Saving and the Command-mode interpreter *)

\* How the file system answers one save: whether OpenOptions::open succeeds
\* and, when it does, how many bytes the writeln! calls get into the file
\* before a write fails (all of them when written = the length of the text),
\* and whether a file that open creates can be read afterwards (the umask
\* decides).  The File is unbuffered and a writeln! is several writes (the
\* line, then the LF), each of which may stop part way: a failed save leaves
\* the truncated file with any proper prefix of the text.
SaveOutcomes(e) ==
    {[opened |-> FALSE, written |-> 0, created_readable |-> TRUE]}
        \cup {[opened |-> TRUE, written |-> n, created_readable |-> r] :
                    n \in 0..Len(write_lines(e.lines, Len(e.lines))), r \in BOOLEAN}

\* The answer of a save that writes everything, under the usual umask.
SaveOk(e) ==
    [opened |-> TRUE, written |-> Len(write_lines(e.lines, Len(e.lines))),
     created_readable |-> TRUE]

\* The file after open(write, truncate, create) and the bytes written: an
\* existing file keeps its permissions, a created one gets the umask's.
opened_file(f, io, bytes) ==
    [exists |-> TRUE,
     readable |-> IF f.exists THEN f.readable ELSE io.created_readable,
     data |-> bytes]

\* Editor::save: io::Result<()>
save(e, f, io) ==
    LET text == write_lines(e.lines, Len(e.lines))
    IN IF ~io.opened THEN [ed |-> e, file |-> f, out |-> "err"]
       ELSE IF io.written < Len(text)
       THEN [ed |-> e, file |-> opened_file(f, io, str_to(text, io.written)), out |-> "err"]
       ELSE [ed |-> [e EXCEPT !.status_message = FileSaved],
             file |-> opened_file(f, io, text),
             out |-> "ok"]

\* The two statements every arm that does not return falls through to.
back_to_normal(e) == [e EXCEPT !.mode = "Normal", !.status_message = <<>>]

\* execute_command with "wq" ending the session before it has saved
execute_command_wq_unsaved(e, f, io) ==
    IF e.status_message = ChW
    THEN LET s == save(e, f, io)
         IN IF s.out = "err" THEN s
            ELSE [ed |-> back_to_normal(s.ed), file |-> s.file, out |-> "false"]
    ELSE IF e.status_message \in {ChQ, ChW \o ChQ}
    THEN [ed |-> e, file |-> f, out |-> "true"]
    ELSE [ed |-> back_to_normal([e EXCEPT !.status_message = InvalidCommand]),
          file |-> f, out |-> "false"]

\* execute_command with "w" also ending the session (line 212 returning
\* Ok(true) after the save, as "wq" does)
execute_command_w_quits(e, f, io) ==
    IF e.status_message = ChW \/ e.status_message = ChW \o ChQ
    THEN LET s == save(e, f, io)
         IN IF s.out = "err" THEN [ed |-> s.ed, file |-> s.file, out |-> "err"]
            ELSE [ed |-> s.ed, file |-> s.file, out |-> "true"]
    ELSE IF e.status_message = ChQ THEN [ed |-> e, file |-> f, out |-> "true"]
    ELSE [ed |-> back_to_normal([e EXCEPT !.status_message = InvalidCommand]),
          file |-> f, out |-> "false"]

\* execute_command with "q" saving before it ends the session, as "wq" does
\* (line 213 written like lines 214-217)
execute_command_q_saves(e, f, io) ==
    IF e.status_message = ChW
    THEN LET s == save(e, f, io)
         IN IF s.out = "err" THEN s
            ELSE [ed |-> back_to_normal(s.ed), file |-> s.file, out |-> "false"]
    ELSE IF e.status_message \in {ChQ, ChW \o ChQ}
    THEN LET s == save(e, f, io)
         IN IF s.out = "err" THEN s
            ELSE [ed |-> s.ed, file |-> s.file, out |-> "true"]
    ELSE [ed |-> back_to_normal([e EXCEPT !.status_message = InvalidCommand]),
          file |-> f, out |-> "false"]

\* Editor::execute_command: io::Result<bool>; out is "true", "false" or "err"
execute_command(e, f, io) ==
    IF e.status_message = ChW
    THEN LET s == save(e, f, io)
         IN IF s.out = "err" THEN s
            ELSE [ed |-> back_to_normal(s.ed), file |-> s.file, out |-> "false"]
    ELSE IF e.status_message = ChQ
    THEN [ed |-> e, file |-> f, out |-> "true"]
    ELSE IF e.status_message = ChW \o ChQ
    THEN LET s == save(e, f, io)
         IN IF s.out = "err" THEN s
            ELSE [ed |-> s.ed, file |-> s.file, out |-> "true"]
    ELSE [ed |-> back_to_normal([e EXCEPT !.status_message = InvalidCommand]),
          file |-> f, out |-> "false"]

----------------------------------------------------------------------------
(* Key events and their dispatch *)

Key(k, c) == [k |-> k, c |-> c]
KeyChar(c) == Key("Char", c)
Enter == KeyChar(ChLF)
Esc == Key("Esc", <<>>)
Backspace == Key("Backspace", <<>>)
Up == Key("Up", <<>>)
Down == Key("Down", <<>>)
Left == Key("Left", <<>>)
Right == Key("Right", <<>>)
Delete == Key("Delete", <<>>)     \* a key no mode lists

\* The result of a handler that returns (): Ok(false), or the panic.
Unit(r, f) == [ed |-> r.ed, file |-> f, out |-> IF r.out = "panic" THEN "panic" ELSE "false"]
Same(e, f) == [ed |-> e, file |-> f, out |-> "false"]

\* handle_key's Normal arm with Enter moving the cursor down a line instead
\* of falling into `_ => {}` (line 144)
normal_key_enter_moves(e, f, key, h) ==
    IF key = KeyChar(ChQ) THEN [ed |-> e, file |-> f, out |-> "true"]
    ELSE IF key = KeyChar(ChI) THEN Same([e EXCEPT !.mode = "Insert"], f)
    ELSE IF key = KeyChar(ChColon)
    THEN Same([e EXCEPT !.mode = "Command", !.status_message = <<>>], f)
    ELSE IF key = Up THEN Unit(move_cursor_up(e), f)
    ELSE IF key = Down \/ key = Enter THEN Unit(move_cursor_down(e, h), f)
    ELSE IF key = Left THEN Unit(move_cursor_left(e), f)
    ELSE IF key = Right THEN Unit(move_cursor_right(e), f)
    ELSE Same(e, f)

\* handle_key, lines 133-145: the keys of Normal mode
normal_key(e, f, key, h) ==
    IF key = KeyChar(ChQ) THEN [ed |-> e, file |-> f, out |-> "true"]
    ELSE IF key = KeyChar(ChI) THEN Same([e EXCEPT !.mode = "Insert"], f)
    ELSE IF key = KeyChar(ChColon)
    THEN Same([e EXCEPT !.mode = "Command", !.status_message = <<>>], f)
    ELSE IF key = Up THEN Unit(move_cursor_up(e), f)
    ELSE IF key = Down THEN Unit(move_cursor_down(e, h), f)
    ELSE IF key = Left THEN Unit(move_cursor_left(e), f)
    ELSE IF key = Right THEN Unit(move_cursor_right(e), f)
    ELSE Same(e, f)

\* handle_key, lines 146-156: the keys of Insert mode
insert_key(e, f, key, h) ==
    IF key = Esc THEN Same([e EXCEPT !.mode = "Normal"], f)
    ELSE IF key = Enter THEN Unit(insert_newline(e), f)
    ELSE IF key.k = "Char" THEN Unit(insert_char(e, key.c), f)
    ELSE IF key = Backspace THEN Unit(delete_char(e), f)
    ELSE IF key = Up THEN Unit(move_cursor_up(e), f)
    ELSE IF key = Down THEN Unit(move_cursor_down(e, h), f)
    ELSE IF key = Left THEN Unit(move_cursor_left(e), f)
    ELSE IF key = Right THEN Unit(move_cursor_right(e), f)
    ELSE Same(e, f)

\* handle_key's Command arm with Backspace written as in the Insert arm
\* (line 164 calling delete_char, as line 150 does)
command_key_deletes(e, f, key, io) ==
    IF key = Enter THEN execute_command(e, f, io)
    ELSE IF key = Esc THEN Same([e EXCEPT !.mode = "Normal", !.status_message = <<>>], f)
    ELSE IF key.k = "Char" THEN Same([e EXCEPT !.status_message = @ \o key.c], f)
    ELSE IF key = Backspace THEN Unit(delete_char(e), f)
    ELSE Same(e, f)

\* handle_key, lines 157-166: the keys of Command mode
command_key(e, f, key, io) ==
    IF key = Enter THEN execute_command(e, f, io)
    ELSE IF key = Esc THEN Same([e EXCEPT !.mode = "Normal", !.status_message = <<>>], f)
    ELSE IF key.k = "Char" THEN Same([e EXCEPT !.status_message = @ \o key.c], f)
    ELSE IF key = Backspace THEN Same([e EXCEPT !.status_message = string_pop(@)], f)
    ELSE Same(e, f)

\* Editor::handle_key: io::Result<bool>; out is "true", "false", "err" or "panic"
handle_key(e, f, key, h, io) ==
    IF e.mode = "Normal" THEN normal_key(e, f, key, h)
    ELSE IF e.mode = "Insert" THEN insert_key(e, f, key, h)
    ELSE command_key(e, f, key, io)

\* display, line 73: the rows of the text area
visible_lines(h) == h - 2

\* Editor::display leaves the editor alone; what it can do is panic.  The
\* screen row cursor.0 - scroll_offset + 1 is a usize subtraction: below zero
\* it panics in a build with overflow checks and wraps in one without.
display_outcomes(e) ==
    IF Row(e) < e.scroll_offset THEN {"ok", "panic"} ELSE {"ok"}

----------------------------------------------------------------------------
(* The session: Editor::new, then Editor::run *)

Editor == Ed(lines, cursor, mode, status_message, scroll_offset)

SetEditor(e) ==
    /\ lines' = e.lines
    /\ cursor' = e.cursor
    /\ mode' = e.mode
    /\ status_message' = e.status_message
    /\ scroll_offset' = e.scroll_offset

\* What the file system holds at the path when the editor starts.
InitFiles ==
    {NoFile, FileOf(<<>>), FileOf(<<"x", CR, LF, LF>>), FileOf(<<"x", LF, "A9", LF>>), Unreadable}

\* The number of characters of a string, and of a buffer.
char_count(s) == Cardinality({i \in 1..Len(s) : s[i] \notin ContinuationBytes})
RECURSIVE total_chars(_)
total_chars(ls) == IF ls = <<>> THEN 0 ELSE char_count(ls[1]) + total_chars(Tail(ls))

\* The characters the keyboard sends in each mode: the ones the mode's handler
\* tells apart, and one (or, where the width matters, two) of the others.
CharsOf(m) ==
    IF m = "Normal" THEN {ChQ, ChI, ChColon, ChX}
    ELSE IF m = "Insert" THEN {ChX, ChE9}
    ELSE {ChW, ChQ, ChX}

Keys(m) ==
    {KeyChar(c) : c \in CharsOf(m)}
        \cup {Enter, Esc, Backspace, Up, Down, Left, Right, Delete}

\* The keys that keep the model within its bounds: the buffer the key leaves,
\* and the command text a typed character leaves, are no larger than the bounds.
Offered(key, r) ==
    /\ Len(r.ed.lines) <= MaxLines
    /\ total_chars(r.ed.lines) <= MaxChars
    /\ (mode = "Command" /\ key.k = "Char" /\ key # Enter)
            => Len(r.ed.status_message) <= MaxCmdLen

Init ==
    /\ \E f \in InitFiles :
        /\ file = f
        /\ lines = new(f).ed.lines
        /\ cursor = new(f).ed.cursor
        /\ mode = new(f).ed.mode
        /\ status_message = new(f).ed.status_message
        /\ scroll_offset = new(f).ed.scroll_offset
        /\ pc = IF new(f).out = "ok" THEN "display" ELSE "failed"
    /\ height \in Heights
    /\ drawn = 0

\* The answers of the file system that matter to a key: only Enter on "w" or
\* "wq" in Command mode saves.
Outcomes(key) ==
    IF mode = "Command" /\ key = Enter /\ status_message \in {ChW, ChW \o ChQ}
    THEN SaveOutcomes(Editor)
    ELSE {SaveOk(Editor)}

\* run, lines 56-59: one key event is taken and handled
HandleKey ==
    /\ pc = "poll"
    /\ \E key \in Keys(mode) : \E io \in Outcomes(key) :
        LET r == handle_key(Editor, file, key, height, io)
        IN /\ Offered(key, r)
           /\ SetEditor(r.ed)
           /\ file' = r.file
           /\ pc' = CASE r.out = "false" -> "display"
                      [] r.out = "true" -> "exited"
                      [] r.out = "err" -> "failed"
                      [] r.out = "panic" -> "panicked"
    /\ drawn' = 0
    /\ UNCHANGED height

\* run, lines 53 and 60: the frame is drawn
Display ==
    /\ pc = "display"
    /\ \E o \in display_outcomes(Editor) :
        pc' = IF o = "ok" THEN "poll" ELSE "panicked"
    /\ drawn' = drawn + 1
    /\ UNCHANGED <<lines, cursor, mode, status_message, scroll_offset, file, height>>

\* run with the display call of line 60 moved out of the `if let` of line
\* 56, so that an iteration without a key event draws a frame too
Idle_redraws ==
    /\ pc = "poll"
    /\ drawn' = drawn + 1
    /\ UNCHANGED <<lines, cursor, mode, status_message, scroll_offset, file, height, pc>>

\* run, lines 56 and 62: no key event is waiting, the loop sleeps
Idle ==
    /\ pc = "poll"
    /\ UNCHANGED vars

Next == HandleKey \/ Display \/ Idle

Spec == Init /\ [][Next]_vars

----------------------------------------------------------------------------
(* Save, then load: a buffer is written with Editor::save and the path is    *)
(* opened again with Editor::new.                                           *)

RTBytes == {"x", CR}
RTStrings == UNION {[1..n -> RTBytes] : n \in 0..MaxRTChars}
RTBuffers == UNION {[1..n -> RTStrings] : n \in 1..MaxRTLines}

InitRT ==
    /\ lines \in RTBuffers
    /\ cursor = <<0, 0>>
    /\ mode = "Normal"
    /\ status_message = <<>>
    /\ scroll_offset = 0
    /\ file = NoFile
    /\ height = MinHeight
    /\ pc = "rt_save"
    /\ drawn = 0

RTSave ==
    /\ pc = "rt_save"
    /\ \E io \in SaveOutcomes(Editor) :
        LET s == save(Editor, file, io)
        IN /\ SetEditor(s.ed)
           /\ file' = s.file
           /\ pc' = IF s.out = "ok" THEN "rt_load" ELSE "failed"
    /\ UNCHANGED <<height, drawn>>

RTLoad ==
    /\ pc = "rt_load"
    /\ SetEditor(new(file).ed)
    /\ pc' = IF new(file).out = "ok" THEN "rt_done" ELSE "failed"
    /\ UNCHANGED <<file, height, drawn>>

NextRT == RTSave \/ RTLoad

SpecRT == InitRT /\ [][NextRT]_vars

----------------------------------------------------------------------------
(* The claims *)

\* The cursor is on a line of the buffer and within it (end of line included).
CursorValid(e) ==
    /\ 0 <= Row(e) /\ Row(e) < Len(e.lines)
    /\ 0 <= Col(e) /\ Col(e) <= Len(Line(e, Row(e)))

\* The cursor's row is one of the rows the text area shows.
CursorVisible(e, h) ==
    /\ e.scroll_offset <= Row(e)
    /\ Row(e) < e.scroll_offset + visible_lines(h)

\* What handle_key makes of a key in the current state, the save succeeding.
Handled(key) == handle_key(Editor, file, key, height, SaveOk(Editor))

Arrows == {Up, Down, Left, Right}
Commands == {ChW, ChQ, ChW \o ChQ}

\* A buffer as text: every line followed by one LF.
RECURSIVE text_of(_)
text_of(ls) == IF ls = <<>> THEN <<>> ELSE Head(ls) \o <<LF>> \o text_of(Tail(ls))

\* C1: after a cursor movement (Up, Down, Left, Right, in Normal or Insert mode)
\* from any reachable state, scroll_offset <= cursor.row and
\* cursor.row < scroll_offset + visible_row_count, visible_row_count = height - 2.
Claim_C1 ==
    (pc = "poll" /\ mode \in {"Normal", "Insert"}) =>
        \A key \in Arrows :
            Handled(key).out = "false" => CursorVisible(Handled(key).ed, height)

\* C2: from a non-empty buffer, whatever keys were handled, the cursor is on a
\* line of the buffer and its column is between 0 and that line's length.
Theorem_C2 == Len(lines) > 0 => CursorValid(Editor)

\* C2's case: keys of Insert and Normal mode have been handled (a line was split,
\* a character typed on the second line, Insert mode left) and the cursor is at
\* the end of the second line, the largest column the claim allows.
Witness_C2 ==
    /\ pc = "poll" /\ mode = "Normal"
    /\ lines = <<<<>>, ChX>>
    /\ cursor = <<1, 1>>

\* C3: the buffer holds at least one line, right after the load and after any keys.
Claim_C3 == Len(lines) >= 1

\* C4: Enter on a Command-mode text other than "w", "q", "wq" keeps the session,
\* returns to Normal mode and leaves the invalid-command notice in the status.
Claim_C4 ==
    (pc = "poll" /\ mode = "Command" /\ status_message \notin Commands) =>
        /\ Handled(Enter).out = "false"
        /\ Handled(Enter).ed.mode = "Normal"
        /\ Handled(Enter).ed.status_message = InvalidCommand

\* The save that gets the answer io does not write everything.
SaveFails(e, io) == ~io.opened \/ io.written < Len(text_of(e.lines))

\* C5: Enter on the Command-mode text "wq" writes the buffer to the file, every
\* line followed by a newline, and then ends the session: the session ends by
\* it only with the file written (a save that fails ends it with the error
\* instead), and the buffer itself is left as it was.
Theorem_C5 ==
    /\ (pc = "poll" /\ mode = "Command" /\ status_message = ChW \o ChQ) =>
            \A io \in SaveOutcomes(Editor) :
                LET r == handle_key(Editor, file, Enter, height, io)
                IN IF ~SaveFails(Editor, io)
                   THEN /\ r.out = "true"
                        /\ r.file.exists /\ r.file.data = text_of(lines)
                        /\ r.ed.lines = lines
                   ELSE r.out = "err"
    /\ (pc = "exited" /\ status_message = FileSaved) =>
            (mode = "Command" /\ file.exists /\ file.data = text_of(lines))

\* C5's case: a character was typed into a new document, "wq" was run, the
\* session has ended and the file holds the buffer.
Witness_C5 ==
    /\ pc = "exited" /\ status_message = FileSaved
    /\ lines = <<ChX>>
    /\ file = FileOf(<<"x", LF>>)

\* C6: Enter on the Command-mode text "w", the save succeeding, keeps the
\* session, returns to Normal mode and leaves "File saved" in the status.
Claim_C6 ==
    (pc = "poll" /\ mode = "Command" /\ status_message = ChW) =>
        /\ Handled(Enter).out = "false"
        /\ Handled(Enter).ed.mode = "Normal"
        /\ Handled(Enter).ed.status_message = FileSaved

\* C7: when the save of "w" or "wq" fails, the session stays alive: handle_key
\* gives no error, a status message tells the user, and buffer and cursor stay.
Claim_C7 ==
    (pc = "poll" /\ mode = "Command" /\ status_message \in {ChW, ChW \o ChQ}) =>
        \A io \in {o \in SaveOutcomes(Editor) : SaveFails(Editor, o)} :
            LET r == handle_key(Editor, file, Enter, height, io)
            IN /\ r.out = "false"
               /\ r.ed.status_message # <<>>
               /\ r.ed.lines = lines /\ r.ed.cursor = cursor

\* No line of the buffer ends in a carriage return.
NoLineEndsInCR(ls) == \A i \in 1..Len(ls) : ls[i] = <<>> \/ ls[i][Len(ls[i])] # CR

\* C8: saving a non-empty buffer of newline-free lines and loading the path
\* again, both succeeding, gives the same lines.
Claim_C8 == [][(pc = "rt_load" /\ pc' = "rt_done") => lines' = lines]_vars

\* C8, amended: saving a non-empty buffer of newline-free lines none of which
\* ends in a carriage return, and loading the path again, both succeeding,
\* gives the same lines.
Theorem_C8 ==
    [][(pc = "rt_load" /\ pc' = "rt_done" /\ NoLineEndsInCR(lines)) => lines' = lines]_vars

\* C8's case: the buffer "x", "xx", "" was saved and loaded again.
Witness_C8 ==
    /\ pc = "rt_done"
    /\ file = FileOf(<<"x", LF, "x", "x", LF, LF>>)
    /\ lines = <<ChX, ChX \o ChX, <<>>>>

\* C9: in Insert mode, at every valid cursor position, a character and then
\* Backspace are both handled and leave the editor exactly as it was.
Claim_C9 ==
    (pc = "poll" /\ mode = "Insert" /\ CursorValid(Editor)) =>
        \A c \in CharsOf("Insert") :
            LET typed == Handled(KeyChar(c))
                erased == handle_key(typed.ed, file, Backspace, height, SaveOk(typed.ed))
            IN /\ typed.out = "false"
               /\ erased.out = "false"
               /\ erased.ed = Editor

\* C10: in Insert mode, at every valid cursor position, Enter and then Backspace
\* are both handled and leave the lines and the cursor exactly as they were.
Claim_C10 ==
    (pc = "poll" /\ mode = "Insert" /\ CursorValid(Editor)) =>
        LET split == Handled(Enter)
            joined == handle_key(split.ed, file, Backspace, height, SaveOk(split.ed))
        IN /\ split.out = "false"
           /\ joined.out = "false"
           /\ joined.ed.lines = lines
           /\ joined.ed.cursor = cursor

\* C11: from every valid cursor position that the Left key moves the cursor
\* away from (inside a line, or at column 0 below the first row, where it
\* goes to the end of the line above), Left and then Right put the cursor
\* back on its (row, column); both keys are handled without a stop signal.
Theorem_C11 ==
    (/\ pc = "poll"
     /\ mode \in {"Normal", "Insert"}
     /\ CursorValid(Editor)
     /\ Handled(Left).ed.cursor # cursor) =>
        LET left == Handled(Left)
            right == handle_key(left.ed, file, Right, height, SaveOk(left.ed))
        IN /\ left.out = "false"
           /\ right.out = "false"
           /\ right.ed.cursor = cursor

\* The Left key has just taken the cursor from the start of the second line
\* to the end of a first line that has a character, and Right takes it back.
Witness_C11 ==
    /\ pc = "poll"
    /\ mode = "Normal"
    /\ Len(lines) = 2
    /\ lines[1] = ChX
    /\ cursor = <<0, 1>>
    /\ scroll_offset = 1
    /\ Handled(Right).ed.cursor = <<1, 0>>
    /\ Handled(Left).ed.cursor = <<0, 0>>

\* C12: whatever key arrives in whatever reachable state, and whatever the
\* file system answers, the mode changes only from Normal to Insert on 'i',
\* from Normal to Command on ':', from Insert to Normal on Esc, and from
\* Command to Normal on Esc or on Enter with a command that does not end the
\* session; the stop signal is returned only in Normal mode on 'q' and in
\* Command mode on Enter with the text "q" or "wq".  So no key in Insert mode
\* stops the session or enters Command mode, and none in Command mode enters
\* Insert mode.
Theorem_C12 ==
    pc = "poll" =>
        \A key \in Keys(mode) : \A io \in Outcomes(key) :
            LET r == handle_key(Editor, file, key, height, io)
            IN /\ r.ed.mode # mode =>
                    \/ mode = "Normal" /\ key = KeyChar(ChI) /\ r.ed.mode = "Insert"
                    \/ mode = "Normal" /\ key = KeyChar(ChColon) /\ r.ed.mode = "Command"
                    \/ mode = "Insert" /\ key = Esc /\ r.ed.mode = "Normal"
                    \/ mode = "Command" /\ key = Esc /\ r.ed.mode = "Normal"
                    \/ /\ mode = "Command" /\ key = Enter
                       /\ r.out = "false" /\ r.ed.mode = "Normal"
               /\ r.out = "true" =>
                    \/ mode = "Normal" /\ key = KeyChar(ChQ)
                    \/ /\ mode = "Command" /\ key = Enter
                       /\ status_message \in {ChQ, ChW \o ChQ}

\* The session has ended from Command mode on Enter with the text "q", the
\* buffer having been edited in Insert mode before.
Witness_C12 ==
    /\ pc = "exited"
    /\ mode = "Command"
    /\ status_message = ChQ
    /\ lines = <<ChX>>

\* The keys the handler of a mode names (lines 134-143, 147-154, 158-164).
Listed(m) ==
    CASE m = "Normal" -> {KeyChar(ChQ), KeyChar(ChI), KeyChar(ChColon)} \cup Arrows
      [] m = "Insert" -> {Esc, Enter, Backspace} \cup Arrows
                            \cup {KeyChar(c) : c \in CharsOf("Insert")}
      [] m = "Command" -> {Enter, Esc, Backspace}
                            \cup {KeyChar(c) : c \in CharsOf("Command")}

Unlisted(m) == Keys(m) \ Listed(m)

\* C13: a key the active mode does not list is ignored: handle_key returns
\* Ok(false), no stop signal and no error, and lines, cursor, scroll_offset,
\* mode and status_message (and the file) are what they were.  These are Esc,
\* Enter, Backspace, Delete and other characters in Normal mode, Delete in
\* Insert mode, the arrows and Delete in Command mode.
Theorem_C13 ==
    pc = "poll" =>
        \A key \in Unlisted(mode) :
            Handled(key) = [ed |-> Editor, file |-> file, out |-> "false"]

\* Command mode with a typed text, over a buffer in which the Down arrow
\* would move the cursor in Normal mode: here it is ignored.
Witness_C13 ==
    /\ pc = "poll"
    /\ mode = "Command"
    /\ status_message = ChW
    /\ Len(lines) = 2
    /\ cursor = <<0, 0>>
    /\ Down \in Unlisted(mode)
    /\ move_cursor_down(Editor, height).ed.cursor = <<1, 0>>
    /\ Handled(Down).ed = Editor

\* The keys that run a save: Enter in Command mode on "w" or "wq".
RunsSave(e, key) ==
    e.mode = "Command" /\ key = Enter /\ e.status_message \in {ChW, ChW \o ChQ}

\* C14: in every valid state (a non-empty buffer, the cursor within it, a
\* height of at least 3) every key that does not run a save is handled to
\* the end: handle_key returns Ok, with no panic from an index out of range,
\* an offset inside a character or an underflow, whatever character is
\* typed, multi-byte ones included.
Claim_C14 ==
    (/\ pc = "poll"
     /\ Len(lines) > 0
     /\ CursorValid(Editor)
     /\ height >= MinHeight) =>
        \A key \in Keys(mode) :
            ~RunsSave(Editor, key) => Handled(key).out \in {"false", "true"}

\* The rule move_down is specified by, with visible_row_count = height - 2:
\* below the last row nothing changes; otherwise the row grows by one, the
\* column is clamped to the new line, and scroll_offset becomes
\* row - visible_row_count + 1 when the new row is at or past
\* scroll_offset + visible_row_count.
move_down_rule(e, h) ==
    IF Row(e) < Len(e.lines) - 1
    THEN LET r == Row(e) + 1
             c == Min(Col(e), Len(Line(e, r)))
         IN [e EXCEPT !.cursor = <<r, c>>,
                      !.scroll_offset =
                          IF r >= e.scroll_offset + visible_lines(h)
                          THEN r - visible_lines(h) + 1
                          ELSE @]
    ELSE e

\* C15: for every height from 3 up and every non-empty buffer with a valid
\* cursor, move_cursor_down (written with height - 3) returns exactly the
\* editor of the rule written with visible_row_count = height - 2; the
\* scroll_offset never differs.
Theorem_C15 ==
    (pc = "poll" /\ Len(lines) > 0 /\ CursorValid(Editor)) =>
        /\ move_cursor_down(Editor, height) = Done(move_down_rule(Editor, height))
        /\ mode \in {"Normal", "Insert"} =>
                /\ Handled(Down).out = "false"
                /\ Handled(Down).ed = move_down_rule(Editor, height)

\* At height 4 (two visible rows) the cursor has come down to the third row
\* and the view has scrolled by one.
Witness_C15 ==
    /\ pc = "poll"
    /\ height = MinHeight + 1
    /\ Len(lines) = 3
    /\ cursor[1] = 2
    /\ scroll_offset = 1
    /\ move_cursor_up(Editor).ed.cursor[1] = 1

\* C16: in every reachable state, also right after Enter and after Backspace
\* at column 0 in Insert mode, 0 <= scroll_offset <= cursor.row <=
\* scroll_offset + visible_row_count - 1: the cursor's row is one of the rows
\* the text area shows.
Claim_C16 ==
    /\ 0 <= scroll_offset
    /\ scroll_offset <= cursor[1]
    /\ cursor[1] <= scroll_offset + visible_lines(height) - 1

\* C17: at a boundary of the buffer the operation changes nothing: the Up key
\* at row 0, Down at the last row, Left at (0,0), Right at the end of the
\* last line, and Backspace in Insert mode at (0,0) each return Ok(false)
\* with lines, cursor, scroll_offset, mode and status_message as they were.
Theorem_C17 ==
    (pc = "poll" /\ mode \in {"Normal", "Insert"}) =>
        LET same == [ed |-> Editor, file |-> file, out |-> "false"]
            last == Len(lines) - 1
        IN /\ Row(Editor) = 0 => Handled(Up) = same
           /\ (Len(lines) > 0 /\ Row(Editor) = last) => Handled(Down) = same
           /\ cursor = <<0, 0>> => Handled(Left) = same
           /\ (/\ Len(lines) > 0 /\ Row(Editor) = last
               /\ Col(Editor) = Len(Line(Editor, last))) => Handled(Right) = same
           /\ (mode = "Insert" /\ cursor = <<0, 0>>) => Handled(Backspace) = same

\* Insert mode at the end of the last line, a line made by Enter that the
\* view has not followed: Down and Right are at their boundary.
Witness_C17 ==
    /\ pc = "poll"
    /\ mode = "Insert"
    /\ lines = <<ChX, <<>>>>
    /\ cursor = <<1, 0>>
    /\ scroll_offset = 0
    /\ Handled(Down).ed = Editor
    /\ Handled(Right).ed = Editor

\* C18 as stated: once a key event has been processed and the loop is past
\* the place of its redraw (it polls again, or it has left the loop on the
\* stop signal), exactly one frame has been drawn for that event.
Claim_C18 ==
    pc \in {"poll", "exited"} => drawn = 1

\* C18, amended: for every key event whose handling does not end the session
\* (handle_key returns Ok(false)) the frame is drawn exactly once, before the
\* next event is polled, and an iteration without a key event draws nothing:
\* whenever the loop polls, exactly one frame has been drawn since the last
\* handled event (or since the start), and none has been drawn when the loop
\* stands before its display call.
Theorem_C18 ==
    /\ pc = "poll" => drawn = 1
    /\ pc = "display" => drawn = 0

\* The loop polls again after a typed character has been handled and its
\* frame drawn.
Witness_C18 ==
    /\ pc = "poll"
    /\ drawn = 1
    /\ mode = "Insert"
    /\ lines = <<ChX>>
    /\ cursor = <<0, 1>>

\* C19: the file is written only by Enter in Command mode on the text "w" or
\* "wq": every other key, in every mode and whatever the file system would
\* answer, leaves the file as it is: 'q' in Normal mode, the command "q" and
\* the invalid commands included.
Theorem_C19 ==
    pc = "poll" =>
        \A key \in Keys(mode) : \A io \in SaveOutcomes(Editor) :
            ~RunsSave(Editor, key) =>
                handle_key(Editor, file, key, height, io).file = file

\* The session has ended on 'q' in Normal mode with an edited buffer, and the
\* file has never been created.
Witness_C19 ==
    /\ pc = "exited"
    /\ mode = "Normal"
    /\ lines = <<ChX>>
    /\ file = NoFile

\* C20: the buffer's lines change only on keys of Insert mode: every key in
\* Normal mode and in Command mode leaves lines as they are, and every key in
\* Command mode leaves cursor and scroll_offset as they are too, whatever the
\* file system answers to a save.
Theorem_C20 ==
    pc = "poll" =>
        \A key \in Keys(mode) : \A io \in Outcomes(key) :
            LET r == handle_key(Editor, file, key, height, io)
            IN /\ mode \in {"Normal", "Command"} => r.ed.lines = lines
               /\ mode = "Command" =>
                    /\ r.ed.cursor = cursor
                    /\ r.ed.scroll_offset = scroll_offset

\* Command mode over an edited buffer, the cursor behind its character: the
\* character typed here has gone to the command text, not to the buffer.
Witness_C20 ==
    /\ pc = "poll"
    /\ mode = "Command"
    /\ status_message = ChX
    /\ lines = <<ChX>>
    /\ cursor = <<0, 1>>
    /\ Handled(Backspace).ed.lines = lines

====
